---------------------------- MODULE Spec2Model ----------------------------
(***************************************************************************)
(* A model of the embeddings glue code:                                    *)
(*   embeddings/metric/hugging_face_metric.py      HuggingFaceMetric       *)
(*   embeddings/model/lightning_module/huggingface_module.py               *)
(*                                                 HuggingFaceLightningModule *)
(*   embeddings/model/lightning_module/lightning_module.py LightningModule *)
(*                                                                         *)
(* Python mappings are TLA+ functions whose domain is the key set.         *)
(* Python strings that the code takes apart (parameter names) are          *)
(* sequences of tokens; "." is a token of its own.                         *)
(* An exception leaving a method is recorded in the "exc" field of the     *)
(* record that describes the last call; "none" means a normal return.      *)
(***************************************************************************)
EXTENDS Integers, Sequences, FiniteSets, TLC

VARIABLES
    \* ---- HuggingFaceMetric ----
    compute_kwargs,     \* self.compute_kwargs, fixed at construction
    metric_call,        \* the last call of compute and how it ended
    \* ---- HuggingFaceLightningModule.forward ----
    fwd,                \* the last call of forward and what reached the model
    \* ---- HuggingFaceLightningModule.freeze_transformer ----
    param_names,        \* model.base_model.named_parameters(): names, in order
    requires_grad,      \* param.requires_grad, by position in param_names
    num_hidden_layers,  \* model.config.num_hidden_layers
    frz,                \* the last call of freeze_transformer
    \* ---- HuggingFaceLightningModule lifecycle ----
    target_names,       \* self.target_names
    metrics_attrs,      \* which of train_metrics/val_metrics/test_metrics exist
    total_steps,        \* self.total_steps (Unset while the attribute is missing)
    hparams,            \* use_scheduler, train_batch_size
    trainer,            \* the attached trainer and its datamodule
    phase,              \* the trainer loop that is running on the module
    checkpoint,         \* the checkpoint mapping handed to the hooks
    saved,              \* what the module and datamodule held at the last save
    event               \* the last lifecycle hook and how it ended

metricVars == <<compute_kwargs, metric_call>>
forwardVars == <<fwd>>
freezeVars == <<param_names, requires_grad, num_hidden_layers, frz>>
lifeVars == <<target_names, metrics_attrs, total_steps, hparams, trainer,
              phase, checkpoint, saved, event>>
vars == <<metricVars, forwardVars, freezeVars, lifeVars>>

-----------------------------------------------------------------------------
(* Python values shared by the parts of the model *)

\* The mapping with no keys: {} in Python.
EmptyMap == [k \in {} |-> 0]

\* Mappings from a subset of keys to values.
Mappings(keys, values) == UNION {[d -> values] : d \in SUBSET keys}

\* bool(x) of a dict: it has a key.
TruthyMap(m) == DOMAIN m # {}

\* bool(x) of a tuple: it has an element.
TruthyTuple(t) == Len(t) > 0

\* Sequences of elements of S of length at most n.
SeqUpTo(S, n) == UNION {[1..k -> S] : k \in 0..n}

\* Python's exception hierarchy, as far as the handlers of this code tell
\* the classes apart: each class and its base.
ExceptionBase ==
    [e \in {"AttributeError", "ValueError", "UnicodeError", "TypeError",
            "KeyError", "AssertionError", "IndexError", "ZeroDivisionError"} |->
        IF e = "UnicodeError" THEN "ValueError" ELSE "Exception"]

ExceptionClasses == DOMAIN ExceptionBase

\* isinstance(e, cls) for an exception of class e.
IsInstance(e, cls) ==
    \/ e = cls
    \/ (e \in ExceptionClasses /\ ExceptionBase[e] = cls)

-----------------------------------------------------------------------------
(* HuggingFaceMetric: hugging_face_metric.py *)

\* self.metric.name of the wrapped metric.
MetricName == "f1"

\* Keyword options of the wrapped metric's compute.
OptionKeys == {"average", "zero_division"}
OptionValues == {0, 1}

\* Keywords a caller of HuggingFaceMetric.compute may add: an option, or a
\* keyword that compute itself passes explicitly (line 34).
CallKeys == OptionKeys \cup {"references"}

\* The keywords compute passes explicitly to the wrapped metric.
ExplicitKeys == {"references", "predictions"}

\* The score of the recovered failure, -1.0.
SentinelScore == -1

\* What the wrapped metric's compute may do once it is entered: return a
\* mapping, return a value that is no mapping (evaluate returns None off the
\* main process), or raise.
ReturnedMappings == {[k \in {MetricName} |-> 0], [k \in {MetricName} |-> 1],
                     [k \in {"precision", "recall"} |-> 1]}

DelegateOutcomes ==
    {[kind |-> "return", mapping |-> TRUE, value |-> v, exc |-> "none"] :
        v \in ReturnedMappings}
    \cup {[kind |-> "return", mapping |-> FALSE, value |-> EmptyMap, exc |-> "none"]}
    \cup {[kind |-> "raise", mapping |-> FALSE, value |-> EmptyMap, exc |-> e] :
        e \in {"AttributeError", "ValueError", "UnicodeError", "TypeError", "KeyError"}}

\* The call expression of line 33-35: the same keyword given twice (by the
\* explicit keywords, **self.compute_kwargs or **kwargs) is a TypeError
\* raised at the call, before the wrapped metric is entered.
KeywordClash(fixed, kwargs) ==
    \/ DOMAIN fixed \cap DOMAIN kwargs # {}
    \/ ExplicitKeys \cap (DOMAIN fixed \cup DOMAIN kwargs) # {}

\* The try block, lines 33-37: the exception it ends with, "none" if it
\* returns.
TryBlockException(fixed, kwargs, delegate) ==
    IF KeywordClash(fixed, kwargs) THEN "TypeError"
    ELSE IF delegate.kind = "raise" THEN delegate.exc
    ELSE IF ~delegate.mapping THEN "AssertionError"
    ELSE "none"

\* The handler of line 38 under a mutation: it catches every exception.
HandledAll(e) == e # "none"

\* except (AttributeError, ValueError), line 38.
Handled(e) == IsInstance(e, "AttributeError") \/ IsInstance(e, "ValueError")

\* HuggingFaceMetric.compute, lines 29-39: the value returned and the
\* exception that leaves the method.
compute(fixed, kwargs, delegate) ==
    LET e == TryBlockException(fixed, kwargs, delegate)
    IN  IF e = "none" THEN [exc |-> "none", value |-> delegate.value]
        ELSE IF Handled(e)
             THEN [exc |-> "none", value |-> [k \in {MetricName} |-> SentinelScore]]
             ELSE [exc |-> e, value |-> EmptyMap]

\* No call of compute has been made.
NoMetricCall == [called |-> FALSE, kwargs |-> EmptyMap, failure |-> "none",
                 exc |-> "none", value |-> EmptyMap]

\* One call of compute(y_true, y_pred, **kwargs).
Compute ==
    /\ \E kwargs \in Mappings(CallKeys, OptionValues), d \in DelegateOutcomes :
        LET r == compute(compute_kwargs, kwargs, d)
        IN  metric_call' = [called |-> TRUE, kwargs |-> kwargs,
                            failure |-> TryBlockException(compute_kwargs, kwargs, d),
                            exc |-> r.exc, value |-> r.value]
    /\ UNCHANGED <<compute_kwargs, forwardVars, freezeVars, lifeVars>>

-----------------------------------------------------------------------------
(* HuggingFaceLightningModule.forward: huggingface_module.py lines 91-96 *)

MaxArgs == 2

BatchKeys == {"input_ids", "attention_mask"}
BatchValues == {1, 2}
BatchMappings == Mappings(BatchKeys, BatchValues)

\* The maps of a ChainMap that hold key k, by position.
Holders(maps, k) == {i \in 1..Len(maps) : k \in DOMAIN maps[i]}

Min(S) == CHOOSE x \in S : \A y \in S : x <= y
Max(S) == CHOOSE x \in S : \A y \in S : x >= y

\* A merge in which the last map holding a key gives its value.
LastWinsDict(maps) ==
    [k \in UNION {DOMAIN maps[i] : i \in 1..Len(maps)} |->
        maps[Max(Holders(maps, k))][k]]

\* dict(ChainMap(*maps)), line 95: the keys of all maps; ChainMap looks a
\* key up in its maps in order and the first map holding it answers.
ChainMapDict(maps) ==
    [k \in UNION {DOMAIN maps[i] : i \in 1..Len(maps)} |->
        maps[Min(Holders(maps, k))][k]]

\* The assertion of line 92.
ForwardAssertion(args, kwargs) ==
    /\ ~(TruthyTuple(args) /\ TruthyMap(kwargs))
    /\ (TruthyTuple(args) \/ TruthyMap(kwargs))

\* forward(*args, **kwargs): the keywords self.model is called with, or the
\* AssertionError.
forward(args, kwargs) ==
    IF ~ForwardAssertion(args, kwargs)
    THEN [exc |-> "AssertionError", model_called |-> FALSE, inputs |-> EmptyMap]
    ELSE [exc |-> "none", model_called |-> TRUE,
          inputs |-> IF TruthyMap(kwargs) THEN kwargs ELSE ChainMapDict(args)]

\* The arguments of a call of forward that has not been made yet.
ForwardCall(args, kwargs) ==
    [called |-> FALSE, args |-> args, kwargs |-> kwargs,
     exc |-> "none", model_called |-> FALSE, inputs |-> EmptyMap]

\* The call of forward(*fwd.args, **fwd.kwargs).
Forward ==
    /\ ~fwd.called
    /\ LET r == forward(fwd.args, fwd.kwargs)
       IN  fwd' = [fwd EXCEPT !.called = TRUE, !.exc = r.exc,
                              !.model_called = r.model_called, !.inputs = r.inputs]
    /\ UNCHANGED <<metricVars, freezeVars, lifeVars>>

-----------------------------------------------------------------------------
(* HuggingFaceLightningModule.freeze_transformer: lines 72-89 *)

MaxParams == 3
MaxLayers == 2
MaxN == 3

\* sys.maxsize, the layer of a pooler parameter (line 84).  It is 2^63 - 1 on
\* a 64-bit build and 2^31 - 1 on a 32-bit one; the model takes the latter,
\* the largest integer TLC represents.  The code only compares it with
\* num_hidden_layers - finetune_last_n_layers.
sys_maxsize == 2147483647

Digits == {"0", "1", "2"}
DigitValue(d) == CASE d = "0" -> 0 [] d = "1" -> 1 [] d = "2" -> 2

\* Parameter names of a base model, as token sequences.
ParamNames ==
    { <<"embeddings", ".", "word_embeddings", ".", "weight">>,
      <<"encoder", ".", "layer", ".", "0", ".", "weight">>,
      <<"encoder", ".", "layer", ".", "1", ".", "weight">>,
      <<"encoder", ".", "layer", ".", "1", "0", ".", "weight">>,
      <<"pooler", ".", "dense", ".", "weight">>,
      <<"classifier", ".", "weight">>,
      <<"encoder", ".", "weight">>,
      <<"encoder", ".", "rel", ".", "bias">> }

\* name.startswith(prefix) for a prefix that is one token.
startswith(name, prefix) == Len(name) >= 1 /\ name[1] = prefix

\* name.split("."): the segments between the "." tokens.
RECURSIVE split(_)
split(name) ==
    IF \A i \in 1..Len(name) : name[i] # "." THEN <<name>>
    ELSE LET i == Min({j \in 1..Len(name) : name[j] = "."})
         IN  <<SubSeq(name, 1, i - 1)>> \o split(SubSeq(name, i + 1, Len(name)))

\* int(s) of a segment of decimal digits.
RECURSIVE DecimalValue(_)
DecimalValue(seg) ==
    IF Len(seg) = 0 THEN 0
    ELSE 10 * DecimalValue(SubSeq(seg, 1, Len(seg) - 1)) + DigitValue(seg[Len(seg)])

\* int(s): a ValueError unless s is a non-empty run of digits.
IsDecimal(seg) == Len(seg) >= 1 /\ \A i \in 1..Len(seg) : seg[i] \in Digits

\* Lines 79-86 with a last branch that takes any other name for a head
\* parameter instead of raising.
layer_of_lenient(name) ==
    IF startswith(name, "embeddings") THEN [exc |-> "none", layer |-> 0]
    ELSE IF startswith(name, "encoder") THEN
        LET segs == split(name)
        IN  IF Len(segs) < 3 THEN [exc |-> "IndexError", layer |-> 0]
            ELSE IF ~IsDecimal(segs[3]) THEN [exc |-> "ValueError", layer |-> 0]
            ELSE [exc |-> "none", layer |-> DecimalValue(segs[3])]
    ELSE [exc |-> "none", layer |-> sys_maxsize]

\* Lines 79-86: the layer of a parameter, or the exception of the line.
\* "NotRecognized" is the ValueError of line 86; "ValueError" and
\* "IndexError" are those of int(...) and of [2] in line 82.
layer_of(name) ==
    IF startswith(name, "embeddings") THEN [exc |-> "none", layer |-> 0]
    ELSE IF startswith(name, "encoder") THEN
        LET segs == split(name)
        IN  IF Len(segs) < 3 THEN [exc |-> "IndexError", layer |-> 0]
            ELSE IF ~IsDecimal(segs[3]) THEN [exc |-> "ValueError", layer |-> 0]
            ELSE [exc |-> "none", layer |-> DecimalValue(segs[3])]
    ELSE IF startswith(name, "pooler") THEN [exc |-> "none", layer |-> sys_maxsize]
    ELSE [exc |-> "NotRecognized", layer |-> 0]

\* A comparison that lets the threshold layer itself be frozen.
crosses_above(layer, no_layers, n) == layer > (no_layers - n)

\* Line 87: the parameter's layer is at or above the cutoff.
crosses(layer, no_layers, n) == layer >= (no_layers - n)

\* A freeze of everything but the pooler.
freeze_all_but_pooler(names, grad) ==
    [exc |-> "none",
     grad |-> [i \in 1..Len(names) |-> grad[i] /\ startswith(names[i], "pooler")]]

\* Lines 73-75: every parameter's requires_grad is set to False.
freeze_all(names, grad) ==
    [exc |-> "none", grad |-> [i \in 1..Len(names) |-> FALSE]]

\* A walk that compares every parameter on its own ("continue" for "break").
RECURSIVE walk_each(_, _, _, _, _)
walk_each(names, grad, no_layers, n, i) ==
    IF i > Len(names) THEN [exc |-> "none", grad |-> grad]
    ELSE LET l == layer_of(names[i])
         IN  IF l.exc # "none" THEN [exc |-> l.exc, grad |-> grad]
             ELSE IF crosses(l.layer, no_layers, n)
                  THEN walk_each(names, grad, no_layers, n, i + 1)
                  ELSE walk_each(names, [grad EXCEPT ![i] = FALSE], no_layers, n, i + 1)

\* Lines 78-89: the loop from parameter i on.  An exception or the break
\* ends it; the parameters before keep what the loop gave them.
RECURSIVE walk(_, _, _, _, _)
walk(names, grad, no_layers, n, i) ==
    IF i > Len(names) THEN [exc |-> "none", grad |-> grad]
    ELSE LET l == layer_of(names[i])
         IN  IF l.exc # "none" THEN [exc |-> l.exc, grad |-> grad]
             ELSE IF crosses(l.layer, no_layers, n)
                  THEN [exc |-> "none", grad |-> grad]
                  ELSE walk(names, [grad EXCEPT ![i] = FALSE], no_layers, n, i + 1)

\* freeze_transformer(finetune_last_n_layers), lines 72-89.
freeze_transformer(names, grad, no_layers, n) ==
    IF n = 0 THEN freeze_all(names, grad)
    ELSE walk(names, grad, no_layers, n, 1)

\* Orders of distinct names.
Orders == {s \in SeqUpTo(ParamNames, MaxParams) :
              \A i, j \in 1..Len(s) : i # j => s[i] # s[j]}

\* A loaded model: every parameter requires a gradient.
AllTrainable(names) == [i \in 1..Len(names) |-> TRUE]

\* No call of freeze_transformer has been made.
NoFreezeCall(grad) == [called |-> FALSE, n |-> 0, before |-> grad, exc |-> "none"]

FreezeTransformer ==
    /\ \E n \in -1..MaxN :
        LET r == freeze_transformer(param_names, requires_grad, num_hidden_layers, n)
        IN  /\ requires_grad' = r.grad
            /\ frz' = [called |-> TRUE, n |-> n, before |-> requires_grad,
                       exc |-> r.exc]
    /\ UNCHANGED <<param_names, num_hidden_layers, metricVars, forwardVars, lifeVars>>

-----------------------------------------------------------------------------
(* Python float arithmetic of setup, lines 51-53.                          *)
(* A float is [zero, bits, exp]: bits is the significand, most significant *)
(* bit first, and the value is the integer that bits writes in binary      *)
(* times 2^exp.  Operands are non-negative integers below 2^30; every      *)
(* operation rounds to nearest, ties to even, as IEEE 754 binary64 does.   *)

\* The significand of a Python float has 53 bits.
MantissaBits == 53

FloatZero == [zero |-> TRUE, bits |-> <<>>, exp |-> 0]

\* The binary digits of a positive integer, most significant first.
RECURSIVE Binary(_)
Binary(n) == IF n = 0 THEN <<>> ELSE Append(Binary(n \div 2), n % 2)

\* The integer a bit sequence writes.
RECURSIVE BitsValue(_)
BitsValue(bits) ==
    IF Len(bits) = 0 THEN 0
    ELSE 2 * BitsValue(SubSeq(bits, 1, Len(bits) - 1)) + bits[Len(bits)]

\* bits + 1; a carry out of the top bit lengthens the sequence by one.
RECURSIVE Increment(_)
Increment(bits) ==
    IF Len(bits) = 0 THEN <<1>>
    ELSE IF bits[Len(bits)] = 0 THEN SubSeq(bits, 1, Len(bits) - 1) \o <<1>>
    ELSE Increment(SubSeq(bits, 1, Len(bits) - 1)) \o <<0>>

\* Rounds a significand of MantissaBits bits, followed by a guard bit and a
\* sticky flag, to nearest with ties to even.
RoundNearestEven(bits, exp, guard, sticky) ==
    IF guard = 1 /\ (sticky \/ bits[Len(bits)] = 1)
    THEN LET up == Increment(bits)
         IN  IF Len(up) > MantissaBits
             THEN [zero |-> FALSE, bits |-> SubSeq(up, 1, MantissaBits), exp |-> exp + 1]
             ELSE [zero |-> FALSE, bits |-> up, exp |-> exp]
    ELSE [zero |-> FALSE, bits |-> bits, exp |-> exp]

\* Long division: bits holds the quotient's digits from its leading 1 on, exp
\* is the weight of the last of them, r the remainder (r < d).
RECURSIVE DivideFrom(_, _, _, _)
DivideFrom(r, d, bits, exp) ==
    IF Len(bits) = MantissaBits
    THEN RoundNearestEven(bits, exp, (2 * r) \div d, (2 * r) % d # 0)
    ELSE LET b == (2 * r) \div d
         IN  DivideFrom((2 * r) % d, d,
                        IF Len(bits) = 0 /\ b = 0 THEN bits ELSE Append(bits, b),
                        exp - 1)

\* n / d of two Python ints (line 52): the correctly rounded quotient.
FloatDivide(n, d) ==
    IF n = 0 THEN FloatZero
    ELSE DivideFrom(n % d, d, Binary(n \div d), 0)

\* bits followed by zeros, up to len digits.
RECURSIVE PadTo(_, _)
PadTo(bits, len) == IF Len(bits) >= len THEN bits ELSE PadTo(Append(bits, 0), len)

\* The digits of bits * k, most significant first, for a small k.
RECURSIVE TimesSmall(_, _, _)
TimesSmall(bits, k, carry) ==
    IF carry = 0 /\ Len(bits) = 0 THEN <<>>
    ELSE IF Len(bits) = 0 THEN Binary(carry)
    ELSE LET t == bits[Len(bits)] * k + carry
         IN  Append(TimesSmall(SubSeq(bits, 1, Len(bits) - 1), k, t \div 2), t % 2)

\* x * float(k) (line 52): the exact product, rounded to MantissaBits bits.
FloatTimes(x, k) ==
    IF x.zero \/ k = 0 THEN FloatZero
    ELSE LET p == TimesSmall(x.bits, k, 0)
             s == Len(p) - MantissaBits
         IN  IF s = 0 THEN [zero |-> FALSE, bits |-> p, exp |-> x.exp]
             ELSE RoundNearestEven(SubSeq(p, 1, MantissaBits), x.exp + s,
                                   p[MantissaBits + 1],
                                   \E i \in (MantissaBits + 2)..Len(p) : p[i] = 1)

\* int(x) of a non-negative float: the digits left of the binary point.
FloatToInt(x) ==
    IF x.zero THEN 0
    ELSE IF x.exp >= 0 THEN BitsValue(PadTo(x.bits, Len(x.bits) + x.exp))
    ELSE IF Len(x.bits) + x.exp <= 0 THEN 0
    ELSE BitsValue(SubSeq(x.bits, 1, Len(x.bits) + x.exp))

-----------------------------------------------------------------------------
(* HuggingFaceLightningModule lifecycle: __init__, setup, the epoch-end    *)
(* hooks of LightningModule and the checkpoint hooks.                      *)

\* Optional[List[str]]: None, or a list.
None == [is_none |-> TRUE, list |-> <<>>]
Some(l) == [is_none |-> FALSE, list |-> l]

\* Ordered label-name lists a datamodule may expose as target_names.
NameLists == { <<"neg", "pos">>, <<"pos", "neg">>, <<"neg", "neu", "pos">> }

\* The stages setup is called with; "None" is the default of line 36.
Stages == {"fit", "None", "validate", "test", "predict"}

MetricAttrs == {"train_metrics", "val_metrics", "test_metrics"}

Unset == [is_set |-> FALSE, value |-> 0]

\* Trainer settings and hyperparameters the runs are made with.
DatasetSizes == {15, 1000}
BatchSizes == {8, 11}
DeviceCounts == {0, 1, 2}
AccumulateGradBatches == {1, 2}
MaxEpochs == {0, 3, 11}      \* 0: max_epochs is falsy (None or 0), line 46

\* Lines 49-53: int((len(dataset) / ab_size) * float(max_epochs)).
steps(dataset_size, train_batch_size, num_devices, accumulate, max_epochs) ==
    LET tb_size == train_batch_size * Max({1, num_devices})
        ab_size == tb_size * accumulate
    IN  IF ab_size = 0 THEN [exc |-> "ZeroDivisionError", value |-> 0]
        ELSE [exc |-> "none",
              value |-> FloatToInt(FloatTimes(FloatDivide(dataset_size, ab_size),
                                              max_epochs))]

\* _init_metrics without the clones for validation and test.
init_metrics_train_only(attrs) == attrs \cup {"train_metrics"}

\* LightningModule._init_metrics, lightning_module.py lines 122-127: the three
\* per-split collections come to exist.
init_metrics(attrs) == attrs \cup MetricAttrs

\* setup with the assignment of line 41 moved into the scheduler branch.
setup_names_with_scheduler(stage, m, t, h) ==
    IF stage \notin {"fit", "None"} THEN [m EXCEPT !.exc = "none"]
    ELSE IF ~t.attached THEN [m EXCEPT !.exc = "AssertionError"]
    ELSE IF ~h.use_scheduler
         THEN [m EXCEPT !.metrics_attrs = init_metrics(@), !.exc = "none"]
    ELSE LET named == [m EXCEPT !.target_names = Some(t.datamodule_target_names)]
         IN  IF t.max_epochs = 0 THEN [named EXCEPT !.exc = "ValueError"]
             ELSE LET s == steps(t.dataset_size, h.train_batch_size, t.num_devices,
                                 t.accumulate_grad_batches, t.max_epochs)
                  IN  IF s.exc # "none" THEN [named EXCEPT !.exc = s.exc]
                      ELSE [named EXCEPT
                               !.total_steps = [is_set |-> TRUE, value |-> s.value],
                               !.metrics_attrs = init_metrics(@),
                               !.exc = "none"]

\* setup(stage), lines 36-54, on a module whose fields are m (target_names,
\* metrics_attrs, total_steps) with trainer t and hyperparameters h.
setup(stage, m, t, h) ==
    IF stage \notin {"fit", "None"} THEN [m EXCEPT !.exc = "none"]
    ELSE IF ~t.attached THEN [m EXCEPT !.exc = "AssertionError"]
    ELSE LET named == [m EXCEPT !.target_names = Some(t.datamodule_target_names)]
         IN  IF ~h.use_scheduler
             THEN [named EXCEPT !.metrics_attrs = init_metrics(@), !.exc = "none"]
             ELSE IF t.max_epochs = 0 THEN [named EXCEPT !.exc = "ValueError"]
             ELSE LET s == steps(t.dataset_size, h.train_batch_size, t.num_devices,
                                 t.accumulate_grad_batches, t.max_epochs)
                  IN  IF s.exc # "none" THEN [named EXCEPT !.exc = s.exc]
                      ELSE [named EXCEPT
                               !.total_steps = [is_set |-> TRUE, value |-> s.value],
                               !.metrics_attrs = init_metrics(@),
                               !.exc = "none"]

\* on_save_checkpoint under a mutation: the module's own list is written.
save_own_names(ckpt, m, t) ==
    IF ~t.attached THEN [exc |-> "AssertionError", checkpoint |-> ckpt]
    ELSE [exc |-> "none",
          checkpoint |-> [k \in DOMAIN ckpt \cup {"target_names"} |->
                             IF k = "target_names" THEN m.target_names ELSE ckpt[k]]]

\* on_save_checkpoint(checkpoint), lines 98-101.
on_save_checkpoint(ckpt, m, t) ==
    IF ~t.attached THEN [exc |-> "AssertionError", checkpoint |-> ckpt]
    ELSE [exc |-> "none",
          checkpoint |-> [k \in DOMAIN ckpt \cup {"target_names"} |->
                             IF k = "target_names"
                             THEN Some(t.datamodule_target_names) ELSE ckpt[k]]]

\* on_load_checkpoint(checkpoint), lines 103-104.
on_load_checkpoint(ckpt, m) ==
    IF "target_names" \notin DOMAIN ckpt THEN [m EXCEPT !.exc = "KeyError"]
    ELSE [m EXCEPT !.target_names = ckpt["target_names"], !.exc = "none"]

\* _aggregate_and_log_metrics(self.<attr>), lightning_module.py lines 105-120:
\* reading a collection that _init_metrics has not made is an AttributeError.
epoch_end(attr, attrs) == IF attr \in attrs THEN "none" ELSE "AttributeError"

\* The module's fields as the record the operators above work on.
Module == [target_names |-> target_names, metrics_attrs |-> metrics_attrs,
           total_steps |-> total_steps, exc |-> "none"]

Event(op, stage, exc, fresh) == [op |-> op, stage |-> stage, exc |-> exc, fresh |-> fresh]

\* The state __init__ leaves (lines 26-34): no target names, no metric
\* collections, no total_steps, no trainer.
Trainers ==
    [attached : {FALSE}, datamodule_target_names : {<<>>},
     dataset_size : DatasetSizes, num_devices : DeviceCounts,
     accumulate_grad_batches : AccumulateGradBatches, max_epochs : MaxEpochs]

NeverSaved == [made |-> FALSE, held |-> None, datamodule |-> None]

\* The trainer of the specification's total_steps example (dataset size 1000,
\* 1 device, accumulation 2), with and without a known max_epochs.
ExampleTrainers ==
    {t \in Trainers : /\ t.dataset_size = 1000 /\ t.num_devices = 1
                      /\ t.accumulate_grad_batches = 2 /\ t.max_epochs \in {0, 3}}

\* A new instance is constructed; the checkpoint on disk stays.
Construct ==
    /\ target_names' = None
    /\ metrics_attrs' = {}
    /\ total_steps' = Unset
    /\ trainer' = [trainer EXCEPT !.attached = FALSE, !.datamodule_target_names = <<>>]
    /\ phase' = "idle"
    /\ event' = Event("construct", "None", "none", TRUE)
    /\ UNCHANGED <<hparams, checkpoint, saved, metricVars, forwardVars, freezeVars>>

\* A trainer entry point (fit, validate, test, predict) attaches the trainer
\* and its datamodule to the module.
AttachTrainer ==
    /\ phase = "idle"
    /\ \E names \in NameLists :
        trainer' = [trainer EXCEPT !.attached = TRUE, !.datamodule_target_names = names]
    /\ event' = Event("attach", "None", "none", FALSE)
    /\ UNCHANGED <<target_names, metrics_attrs, total_steps, hparams, phase,
                   checkpoint, saved, metricVars, forwardVars, freezeVars>>

\* setup(stage).  With a trainer attached and no exception, the trainer's
\* loop of that stage starts; a call with the default stage starts none.
Setup ==
    /\ phase = "idle"
    /\ \E stage \in Stages :
        LET r == setup(stage, Module, trainer, hparams)
        IN  /\ target_names' = r.target_names
            /\ metrics_attrs' = r.metrics_attrs
            /\ total_steps' = r.total_steps
            /\ event' = Event("setup", stage, r.exc, FALSE)
            /\ phase' = IF r.exc = "none" /\ trainer.attached /\ stage # "None"
                        THEN stage ELSE "idle"
    /\ UNCHANGED <<hparams, trainer, checkpoint, saved, metricVars, forwardVars,
                   freezeVars>>

OnTrainEpochEnd ==
    /\ phase = "fit"
    /\ event' = Event("on_train_epoch_end", phase,
                      epoch_end("train_metrics", metrics_attrs), FALSE)
    /\ UNCHANGED <<target_names, metrics_attrs, total_steps, hparams, trainer, phase,
                   checkpoint, saved, metricVars, forwardVars, freezeVars>>

OnValidationEpochEnd ==
    /\ phase \in {"fit", "validate"}
    /\ event' = Event("on_validation_epoch_end", phase,
                      epoch_end("val_metrics", metrics_attrs), FALSE)
    /\ UNCHANGED <<target_names, metrics_attrs, total_steps, hparams, trainer, phase,
                   checkpoint, saved, metricVars, forwardVars, freezeVars>>

OnTestEpochEnd ==
    /\ phase = "test"
    /\ event' = Event("on_test_epoch_end", phase,
                      epoch_end("test_metrics", metrics_attrs), FALSE)
    /\ UNCHANGED <<target_names, metrics_attrs, total_steps, hparams, trainer, phase,
                   checkpoint, saved, metricVars, forwardVars, freezeVars>>

\* The trainer's loop ends.
EndRun ==
    /\ phase # "idle"
    /\ phase' = "idle"
    /\ event' = Event("end", "None", "none", FALSE)
    /\ UNCHANGED <<target_names, metrics_attrs, total_steps, hparams, trainer,
                   checkpoint, saved, metricVars, forwardVars, freezeVars>>

OnSaveCheckpoint ==
    /\ LET r == on_save_checkpoint(checkpoint, Module, trainer)
       IN  /\ checkpoint' = r.checkpoint
           /\ event' = Event("on_save_checkpoint", "None", r.exc, FALSE)
           /\ saved' = IF r.exc = "none"
                       THEN [made |-> TRUE, held |-> target_names,
                             datamodule |-> Some(trainer.datamodule_target_names)]
                       ELSE saved
    /\ UNCHANGED <<target_names, metrics_attrs, total_steps, hparams, trainer, phase,
                   metricVars, forwardVars, freezeVars>>

\* on_load_checkpoint; "fresh" records that the instance had just been
\* constructed.
OnLoadCheckpoint ==
    /\ LET r == on_load_checkpoint(checkpoint, Module)
       IN  /\ target_names' = r.target_names
           /\ event' = Event("on_load_checkpoint", "None", r.exc,
                             event.op = "construct")
    /\ UNCHANGED <<metrics_attrs, total_steps, hparams, trainer, phase, checkpoint,
                   saved, metricVars, forwardVars, freezeVars>>

-----------------------------------------------------------------------------
(* Specifications.  The metric adapter, forward, freeze_transformer and   *)
(* the lifecycle hooks share no state, so each is run on its own while the *)
(* other parts rest in the state construction leaves.                      *)

\* HuggingFaceMetric.compute, for every fixed compute_kwargs.
SpecMetricInit ==
    /\ compute_kwargs \in Mappings(OptionKeys, OptionValues)
    /\ metric_call = NoMetricCall
    /\ fwd = ForwardCall(<<>>, EmptyMap)
    /\ param_names = <<>>
    /\ num_hidden_layers = 0
    /\ requires_grad = <<>>
    /\ frz = NoFreezeCall(<<>>)
    /\ target_names = None
    /\ metrics_attrs = {}
    /\ total_steps = Unset
    /\ hparams \in [use_scheduler : {FALSE}, train_batch_size : {8}]
    /\ trainer \in {t \in ExampleTrainers : t.max_epochs = 3}
    /\ phase = "idle"
    /\ checkpoint = EmptyMap
    /\ saved = NeverSaved
    /\ event = Event("construct", "None", "none", TRUE)

SpecMetric == SpecMetricInit /\ [][Compute]_vars

\* forward, for every tuple of at most MaxArgs positional mappings and every
\* keyword mapping.
SpecForwardInit ==
    /\ compute_kwargs = EmptyMap
    /\ metric_call = NoMetricCall
    /\ fwd \in {ForwardCall(args, kwargs) :
                  args \in SeqUpTo(BatchMappings, MaxArgs), kwargs \in BatchMappings}
    /\ param_names = <<>>
    /\ num_hidden_layers = 0
    /\ requires_grad = <<>>
    /\ frz = NoFreezeCall(<<>>)
    /\ target_names = None
    /\ metrics_attrs = {}
    /\ total_steps = Unset
    /\ hparams \in [use_scheduler : {FALSE}, train_batch_size : {8}]
    /\ trainer \in {t \in ExampleTrainers : t.max_epochs = 3}
    /\ phase = "idle"
    /\ checkpoint = EmptyMap
    /\ saved = NeverSaved
    /\ event = Event("construct", "None", "none", TRUE)

SpecForward == SpecForwardInit /\ [][Forward]_vars

\* freeze_transformer, for every order of at most MaxParams parameter names
\* and every layer count up to MaxLayers.
SpecFreezeInit ==
    /\ compute_kwargs = EmptyMap
    /\ metric_call = NoMetricCall
    /\ fwd = ForwardCall(<<>>, EmptyMap)
    /\ param_names \in Orders
    /\ num_hidden_layers \in 0..MaxLayers
    /\ requires_grad = AllTrainable(param_names)
    /\ frz = NoFreezeCall(requires_grad)
    /\ target_names = None
    /\ metrics_attrs = {}
    /\ total_steps = Unset
    /\ hparams \in [use_scheduler : {FALSE}, train_batch_size : {8}]
    /\ trainer \in {t \in ExampleTrainers : t.max_epochs = 3}
    /\ phase = "idle"
    /\ checkpoint = EmptyMap
    /\ saved = NeverSaved
    /\ event = Event("construct", "None", "none", TRUE)

SpecFreeze == SpecFreezeInit /\ [][FreezeTransformer]_vars

\* The lifecycle of one module instance at a time.
SpecLifeInit ==
    /\ compute_kwargs = EmptyMap
    /\ metric_call = NoMetricCall
    /\ fwd = ForwardCall(<<>>, EmptyMap)
    /\ param_names = <<>>
    /\ num_hidden_layers = 0
    /\ requires_grad = <<>>
    /\ frz = NoFreezeCall(<<>>)
    /\ target_names = None
    /\ metrics_attrs = {}
    /\ total_steps = Unset
    /\ hparams \in [use_scheduler : BOOLEAN, train_batch_size : {8}]
    /\ trainer \in ExampleTrainers
    /\ phase = "idle"
    /\ checkpoint = EmptyMap
    /\ saved = NeverSaved
    /\ event = Event("construct", "None", "none", TRUE)

LifeNext ==
    \/ Construct
    \/ AttachTrainer
    \/ Setup
    \/ OnTrainEpochEnd
    \/ OnValidationEpochEnd
    \/ OnTestEpochEnd
    \/ EndRun
    \/ OnSaveCheckpoint
    \/ OnLoadCheckpoint

SpecLife == SpecLifeInit /\ [][LifeNext]_vars

\* setup, for every trainer setting and hyperparameter of the sets above.
SpecStepsInit ==
    /\ compute_kwargs = EmptyMap
    /\ metric_call = NoMetricCall
    /\ fwd = ForwardCall(<<>>, EmptyMap)
    /\ param_names = <<>>
    /\ num_hidden_layers = 0
    /\ requires_grad = <<>>
    /\ frz = NoFreezeCall(<<>>)
    /\ target_names = None
    /\ metrics_attrs = {}
    /\ total_steps = Unset
    /\ hparams \in [use_scheduler : BOOLEAN, train_batch_size : BatchSizes]
    /\ trainer \in Trainers
    /\ phase = "idle"
    /\ checkpoint = EmptyMap
    /\ saved = NeverSaved
    /\ event = Event("construct", "None", "none", TRUE)

StepsNext == AttachTrainer \/ Setup \/ EndRun

SpecSteps == SpecStepsInit /\ [][StepsNext]_vars

-----------------------------------------------------------------------------
(* Properties of HuggingFaceMetric.compute (SpecMetric) *)

SentinelMapping == [k \in {MetricName} |-> SentinelScore]

\* C1 as stated: whatever makes the wrapped compute fail, compute raises
\* nothing and returns exactly {metric name: -1.0}.
C1_NeverRaises ==
    (metric_call.called /\ metric_call.failure # "none")
        => (metric_call.exc = "none" /\ metric_call.value = SentinelMapping)

\* C1 (amended): a failure that is an AttributeError or a ValueError (or a
\* subclass, such as UnicodeError) is answered with {metric name: -1.0};
\* every other failure (the TypeError of an option given both as a fixed and
\* as a call-time keyword, the AssertionError of a result that is no mapping,
\* any other exception of the wrapped metric) leaves compute as it was raised.
C1_RecoversAttributeAndValueErrors ==
    metric_call.called =>
        /\ metric_call.failure \in {"AttributeError", "ValueError", "UnicodeError"}
              => (metric_call.exc = "none" /\ metric_call.value = SentinelMapping)
        /\ metric_call.failure \in {"TypeError", "KeyError", "AssertionError"}
              => metric_call.exc = metric_call.failure

\* C1 witness: the wrapped metric raised a ValueError and the sentinel came back.
C1_Witness ==
    /\ metric_call.called
    /\ metric_call.failure = "ValueError"
    /\ metric_call.exc = "none"
    /\ metric_call.value = SentinelMapping

-----------------------------------------------------------------------------
(* Properties of forward (SpecForward) *)

\* The keys that more than one positional argument holds.
SharedKeys(args) == {k \in BatchKeys : Cardinality(Holders(args, k)) > 1}

PositionalCall == fwd.called /\ Len(fwd.args) >= 2 /\ DOMAIN fwd.kwargs = {}

\* C2 as stated: with several positional mappings and no keywords the model
\* gets one merged mapping in which the later argument's value wins.
C2_LaterArgumentWins ==
    PositionalCall =>
        /\ fwd.model_called
        /\ \A k \in SharedKeys(fwd.args) :
              fwd.inputs[k] = fwd.args[Max(Holders(fwd.args, k))][k]

\* C2 (amended): the model gets one mapping holding every key of every
\* positional argument, and for a key present in more than one argument the
\* value of the EARLIER argument wins; the model is reached only when exactly
\* one of positional and keyword arguments is given.
C2_EarlierArgumentWins ==
    /\ PositionalCall =>
          /\ fwd.model_called
          /\ DOMAIN fwd.inputs = UNION {DOMAIN fwd.args[i] : i \in 1..Len(fwd.args)}
          /\ \A k \in DOMAIN fwd.inputs :
                fwd.inputs[k] = fwd.args[Min(Holders(fwd.args, k))][k]
    /\ fwd.called =>
          (fwd.model_called <=> ((Len(fwd.args) > 0) # (DOMAIN fwd.kwargs # {})))
    /\ (fwd.called /\ ~fwd.model_called) => fwd.exc = "AssertionError"

\* C2 witness: two positional mappings disagree on a key and the model got
\* the first one's value.
C2_Witness ==
    /\ PositionalCall
    /\ fwd.model_called
    /\ \E k \in SharedKeys(fwd.args) :
          /\ fwd.args[1][k] # fwd.args[2][k]
          /\ fwd.inputs[k] = fwd.args[1][k]

-----------------------------------------------------------------------------
(* Properties of freeze_transformer (SpecFreeze) *)

\* The name starts with none of the three prefixes of lines 79-83.
Unrecognised(name) ==
    Len(name) = 0 \/ name[1] \notin {"embeddings", "encoder", "pooler"}

\* The name has a layer: a recognised prefix and, for an encoder parameter,
\* the form encoder.<x>.<i>.
WellFormed(name) == ~Unrecognised(name) /\ layer_of(name).exc = "none"

LayerIndex(name) == layer_of(name).layer

\* num_hidden_layers - finetune_last_n_layers for the last call.
Threshold == num_hidden_layers - frz.n

Positions == 1..Len(param_names)

\* The first position whose parameter is at or above the threshold; one past
\* the end if there is none.
FirstCrossing ==
    LET S == {i \in Positions : /\ WellFormed(param_names[i])
                                /\ LayerIndex(param_names[i]) >= Threshold}
    IN  IF S = {} THEN Len(param_names) + 1 ELSE Min(S)

\* The first position whose name has no layer; one past the end if none.
FirstIllFormed ==
    LET S == {i \in Positions : ~WellFormed(param_names[i])}
    IN  IF S = {} THEN Len(param_names) + 1 ELSE Min(S)

\* Layers do not decrease along the traversal.
Monotonic ==
    \A i, j \in Positions :
        i < j => LayerIndex(param_names[i]) <= LayerIndex(param_names[j])

\* Every name but the unrecognised ones has a layer.
OnlyUnrecognisedIllFormed ==
    \A i \in Positions : WellFormed(param_names[i]) \/ Unrecognised(param_names[i])

\* C3 as stated: with n # 0 an unrecognised parameter name makes the call
\* fail with the unrecognised-parameter error wherever it sits.
C3_UnrecognisedAlwaysFatal ==
    (/\ frz.called /\ frz.n # 0
     /\ OnlyUnrecognisedIllFormed
     /\ \E i \in Positions : Unrecognised(param_names[i]))
        => frz.exc = "NotRecognized"

\* C3 (amended): with n # 0 the call fails with the unrecognised-parameter
\* error exactly when an unrecognised name is reached by the traversal, that
\* is, when it comes before the first parameter at or above the threshold and
\* before any other name without a layer; the failure ends the call, so the
\* parameters from that name on keep their requires_grad.  An unrecognised
\* name after the first crossing is never examined.
C3_UnrecognisedFatalWhenReached ==
    (frz.called /\ frz.n # 0) =>
        /\ frz.exc = "NotRecognized"
              <=> (/\ FirstIllFormed <= Len(param_names)
                   /\ FirstIllFormed < FirstCrossing
                   /\ Unrecognised(param_names[FirstIllFormed]))
        /\ frz.exc = "NotRecognized"
              => \A i \in Positions :
                    i >= FirstIllFormed => requires_grad[i] = frz.before[i]

\* C3 witness: an unrecognised name sits behind the first crossing and the
\* call returned normally.
C3_Witness ==
    /\ frz.called /\ frz.n # 0
    /\ frz.exc = "none"
    /\ OnlyUnrecognisedIllFormed
    /\ \E i \in Positions : Unrecognised(param_names[i]) /\ i > FirstCrossing

AllRecognised == \A i \in Positions : WellFormed(param_names[i])

\* C6 as stated: freeze_transformer(num_hidden_layers) changes no
\* requires_grad, for recognised names in layer-monotonic order.
C6_TotalLayersFreezesNothing ==
    (/\ frz.called /\ frz.n = num_hidden_layers
     /\ AllRecognised /\ Monotonic)
        => requires_grad = frz.before

\* C6 (amended): the same for a model with at least one hidden layer;
\* with num_hidden_layers = 0 the call is freeze_transformer(0), which
\* freezes everything.
C6_TotalLayersFreezesNothingIfPositive ==
    (/\ frz.called /\ frz.n = num_hidden_layers /\ frz.n >= 1
     /\ AllRecognised /\ Monotonic)
        => (requires_grad = frz.before /\ frz.exc = "none")

\* C6 witness: embeddings and encoder parameters that were trainable are
\* still trainable after freeze_transformer(num_hidden_layers).
C6_Witness ==
    /\ frz.called /\ frz.n = num_hidden_layers /\ frz.n >= 1
    /\ AllRecognised /\ Monotonic
    /\ Len(param_names) >= 2
    /\ startswith(param_names[1], "embeddings")
    /\ frz.before[1]
    /\ requires_grad = frz.before

\* C7: freeze_transformer(0) sets requires_grad to False on every parameter
\* of the base model, whatever its name, and raises nothing.
C7_ZeroFreezesEverything ==
    (frz.called /\ frz.n = 0) =>
        /\ frz.exc = "none"
        /\ \A i \in Positions : ~requires_grad[i]

\* C7 witness: a pooler and an unrecognised parameter that were trainable
\* are frozen by freeze_transformer(0).
C7_Witness ==
    /\ frz.called /\ frz.n = 0
    /\ frz.exc = "none"
    /\ \E i, j \in Positions :
          /\ startswith(param_names[i], "pooler") /\ frz.before[i]
          /\ Unrecognised(param_names[j]) /\ frz.before[j]
    /\ \A i \in Positions : ~requires_grad[i]

\* C9: for n >= 1 and names that all have a layer, the call disables the
\* gradient of exactly the parameters before the first one at or above the
\* threshold; that one and all after it keep their requires_grad, whatever
\* their own layer; pooler parameters and all after them are never frozen.
C9_FrozenIsPrefixBeforeFirstCrossing ==
    (frz.called /\ frz.n >= 1 /\ AllRecognised) =>
        /\ frz.exc = "none"
        /\ \A i \in Positions :
              /\ i < FirstCrossing => ~requires_grad[i]
              /\ i >= FirstCrossing => requires_grad[i] = frz.before[i]
        /\ \A i, j \in Positions :
              (startswith(param_names[i], "pooler") /\ j >= i)
                  => requires_grad[j] = frz.before[j]

\* C9 witness: a parameter below the threshold sits behind the first crossing
\* and stays trainable while an earlier one was frozen.
C9_Witness ==
    /\ frz.called /\ frz.n >= 1 /\ AllRecognised
    /\ \E i, j \in Positions :
          /\ i < FirstCrossing /\ frz.before[i] /\ ~requires_grad[i]
          /\ j > FirstCrossing
          /\ LayerIndex(param_names[j]) < Threshold
          /\ requires_grad[j]

-----------------------------------------------------------------------------
(* Properties of the checkpoint hooks and of setup (SpecLife, SpecSteps) *)

\* on_load_checkpoint has just returned on an instance that had done nothing
\* since its construction, and a checkpoint had been saved before.
LoadedOnFresh ==
    /\ event.op = "on_load_checkpoint"
    /\ event.fresh
    /\ event.exc = "none"
    /\ saved.made

\* C4 as stated: save then load on a fresh instance leaves it with the list
\* the saving module held.
C4_RoundTripRestoresModuleNames ==
    (LoadedOnFresh /\ ~saved.held.is_none) => target_names = saved.held

\* C4 (amended): save then load on a fresh instance leaves it with the list
\* that the datamodule of the saving module's trainer exposed at save time,
\* element for element and in order; that is the list the saving module held
\* only if it had it from setup with that datamodule.
C4_RoundTripRestoresDatamoduleNames ==
    LoadedOnFresh => target_names = saved.datamodule

\* C4 witness: a fresh instance got a list of several labels back, and it is
\* not the list the saving module held.
C4_Witness ==
    /\ LoadedOnFresh
    /\ ~target_names.is_none
    /\ Len(target_names.list) >= 2
    /\ target_names = saved.datamodule
    /\ ~saved.held.is_none
    /\ saved.held # saved.datamodule

EvalEpochEnd == event.op \in {"on_validation_epoch_end", "on_test_epoch_end"}

\* C5 as stated: whenever a validation or test epoch runs, target_names is
\* not None, whichever stage setup was called with.
C5_NamesAvailableAtEveryEvalEpoch ==
    EvalEpochEnd => ~target_names.is_none

\* C5 (amended): target_names is not None when a validation epoch of a run
\* that setup started with stage "fit" executes; setup with "validate",
\* "test" or "predict" assigns nothing, so in those runs the list is there
\* only if an earlier setup for fit or a checkpoint load put it there.
C5_NamesAvailableInFitRun ==
    (EvalEpochEnd /\ event.stage = "fit") => ~target_names.is_none

\* C5 witness: a validation epoch of a fit run ended with the names present.
C5_Witness ==
    /\ event.op = "on_validation_epoch_end"
    /\ event.stage = "fit"
    /\ target_names = Some(trainer.datamodule_target_names)

EpochEnd ==
    event.op \in {"on_train_epoch_end", "on_validation_epoch_end", "on_test_epoch_end"}

\* C10 as stated: whatever stage setup was called with, the collection of a
\* split exists when that split's epoch-end hook reads it.
C10_MetricsInitializedForEveryStage ==
    EpochEnd => event.exc = "none"

\* C10 (amended): setup initializes the three collections only for stage
\* "fit" or None, and only if it returns normally; the epoch-end hooks of a
\* run started with stage "fit" find their collection initialized; a setup
\* that raises starts no run.
C10_MetricsInitializedInFitRun ==
    /\ (EpochEnd /\ event.stage = "fit") => event.exc = "none"
    /\ (event.op = "setup" /\ event.stage \in {"fit", "None"} /\ event.exc = "none")
          => metrics_attrs = MetricAttrs
    /\ (event.op = "setup" /\ event.exc # "none") => phase = "idle"
    /\ phase = "fit" => metrics_attrs = MetricAttrs

\* C10 witness: the validation epoch of a fit run ended and found val/ there.
C10_Witness ==
    /\ event.op = "on_validation_epoch_end"
    /\ event.stage = "fit"
    /\ event.exc = "none"
    /\ "val_metrics" \in metrics_attrs

\* floor((D / (B * max(1, devices) * accumulation)) * E) in exact arithmetic.
ExactTotalSteps ==
    (trainer.dataset_size * trainer.max_epochs)
        \div (hparams.train_batch_size * Max({1, trainer.num_devices})
                * trainer.accumulate_grad_batches)

\* C8: after setup for the fit stage with a known positive max_epochs,
\* total_steps is the exact floor if scheduling is requested, and is not set
\* if it is not.
C8_TotalStepsIsExactFloor ==
    (/\ event.op = "setup" /\ event.stage \in {"fit", "None"}
     /\ event.exc = "none" /\ trainer.max_epochs > 0)
        => IF hparams.use_scheduler
           THEN total_steps = [is_set |-> TRUE, value |-> ExactTotalSteps]
           ELSE total_steps = Unset

=============================================================================
